---- MODULE Spec2Model ----
(***************************************************************************)
(* A model of src/Bot/app.py: the crime-news pipeline that scores feed     *)
(* items, drops near-duplicates, geocodes a place per item, stores the     *)
(* accepted events in SQLite and aggregates them into rounded buckets.     *)
(*                                                                         *)
(* Units.  A score is an integer number of 1/10000 (0.6 is 6000).  A       *)
(* coordinate is an integer number of 1/100000 degree (1.23456 is 123456); *)
(* a rounded coordinate is an integer number of 1/1000 degree.  Time is an *)
(* integer number of half seconds.                                         *)
(***************************************************************************)
EXTENDS Integers, Sequences, FiniteSets, TLC

VARIABLES
    store,      \* table news_events, rows in rowid order
    pts,        \* the last result of aggregate()
    pts_from,   \* the table contents that aggregate() call read
    first_offer,\* per link, the first row ever handed to save_events
    reoffered,  \* a row was handed to save_events after another row of its link that
                \* differs from it in every other field
    pc,         \* position of run_pipeline: idle, text, places, geocode, finish
    runs,       \* number of runs started; the clock dt_utc() reads ticks once per run
    items,      \* the items of the current run
    idx,        \* index of the item in process (1-based)
    lsh,        \* the run's MinHashLSH index / sig_index: <<key, signature>> pairs
    to_save,    \* rows collected by the current run
    text,       \* text of the item in process
    lang,       \* language of the item in process
    s,          \* score of the item in process
    places,     \* candidate names of the item in process
    gi,         \* index of the next candidate to geocode
    geos,       \* geocode_places' out list
    limiter_used, \* the item's RateLimiter has made a call (_last_call is set)
    elapsed,    \* half seconds since the run's last geocoder request, at most MinDelay (-1: no request yet)
    calls,      \* <<name, answer, gap>> of the geocoder requests made for the item in process
    outcome,    \* per item of the current run, how its loop iteration ended
    matched,    \* per item, the keys lsh.query returned when it was rejected
    trace,      \* per item: its text, what detect did with it, its language and score,
                \* whether its signature was inserted, whether
                \* geocode_places was entered, whether it returned with every answer None
    added,      \* rows the last finished run added to the table
    result      \* what the last finished run_pipeline returned

vars == <<store, pts, pts_from, first_offer, reoffered, pc, runs, items, idx, lsh, to_save,
          text, lang, s, places, gi, geos, limiter_used, elapsed, calls, outcome, matched,
          trace, added, result>>

pipeVars == <<pc, runs, items, idx, lsh, to_save, text, lang, s, places, gi, geos,
              limiter_used, elapsed, calls, outcome, matched, trace, added, result>>

\* ------------------------------------------------------------------ bounds
MaxRuns == 2
MaxItems == 2
MaxRows == 2

\* --------------------------------------------------------------- utilities
Min(a, b) == IF a <= b THEN a ELSE b
Max(a, b) == IF a >= b THEN a ELSE b
Abs(a) == IF a < 0 THEN -a ELSE a

\* 1-character string at position i
CharAt(str, i) == SubSeq(str, i, i)

\* index of 1-character string c in str, 0 when absent
IndexOf(str, c) ==
    IF \E i \in 1..Len(str) : CharAt(str, i) = c
    THEN CHOOSE i \in 1..Len(str) : CharAt(str, i) = c
    ELSE 0

UpperChars == "ABCDEFGHIJKLMNOPQRSTUVWXYZÁÉÍÓÚÂÊÔÃÕÇÀ"
LowerChars == "abcdefghijklmnopqrstuvwxyzáéíóúâêôãõçà"

\* str.lower() of one character
LowerChar(c) ==
    LET i == IndexOf(UpperChars, c) IN IF i = 0 THEN c ELSE CharAt(LowerChars, i)

\* str.lower()
RECURSIVE Lower(_)
Lower(str) ==
    IF Len(str) = 0 THEN ""
    ELSE IF Len(str) = 1 THEN LowerChar(str)
    ELSE LET h == Len(str) \div 2
         IN Lower(SubSeq(str, 1, h)) \o Lower(SubSeq(str, h + 1, Len(str)))

\* str.strip(): leading and trailing blanks removed
Strip(str) ==
    LET solid == {i \in 1..Len(str) : CharAt(str, i) # " "}
    IN IF solid = {} THEN ""
       ELSE SubSeq(str, CHOOSE i \in solid : \A j \in solid : i <= j,
                        CHOOSE i \in solid : \A j \in solid : i >= j)

\* Python's  k in t  on strings
Contains(t, k) ==
    \E i \in 1..(Len(t) - Len(k) + 1) : SubSeq(t, i, i + Len(k) - 1) = k

\* str.startswith
StartsWith(str, p) == Len(str) >= Len(p) /\ SubSeq(str, 1, Len(p)) = p

\* ------------------------------------------------------- relevance scorer
CRIME_KEYWORDS ==
    [pt |-> <<"homicídio", "assassinato", "roubo", "furto", "tráfico", "agressão",
              "sequestro", "extorsão", "estupro", "latrocínio", "corrupção", "fraude",
              "crime organizado", "milícia", "tiroteio">>,
     en |-> <<"homicide", "murder", "robbery", "theft", "trafficking", "assault",
              "kidnapping", "extortion", "rape", "felony", "corruption", "fraud",
              "organized crime", "shooting", "arson">>]

\* hits = sum(1 for k in CRIME_KEYWORDS[lang] if k in t)
Hits(txt, lg) ==
    LET t == Lower(txt)
        kw == CRIME_KEYWORDS[lg]
    IN Cardinality({i \in 1..Len(kw) : Contains(t, kw[i])})

\* min(hits/5.0, 1.0)*0.6 + min(len(text)/2000.0, 1.0)*0.4, in 1/10000
crime_score_uncapped(txt, lg) ==
    (Hits(txt, lg) * 2000 * 6 + Min(Len(txt) * 5, 10000) * 4) \div 10

crime_score_min1(txt, lg) ==
    (Min(Hits(txt, lg) * 2000, 10000) * 6 + Min(Max(Len(txt), 1) * 5, 10000) * 4) \div 10

crime_score(txt, lg) ==
    (Min(Hits(txt, lg) * 2000, 10000) * 6 + Min(Len(txt) * 5, 10000) * 4) \div 10

\* the acceptance gate  s < 0.6  rejects, in 1/10000
MinScore == 6000

\* ------------------------------------------------------ signature builder
\* the characters \w matches among those the texts use
WordChars == "abcdefghijklmnopqrstuvwxyzABCDEFGHIJKLMNOPQRSTUVWXYZ0123456789_áéíóúâêôãõçà"

IsWord(str, i) == IndexOf(WordChars, CharAt(str, i)) # 0

\* shortest token re.findall(r"\w{5,}") returns
MinTokenLen == 5

\* set(re.findall(r"\w{5,}", text.lower())): the maximal runs of word
\* characters that are at least 5 long
Tokens(txt) ==
    LET t == Lower(txt)
        n == Len(t)
        starts == {a \in 1..n : IsWord(t, a) /\ (a = 1 \/ ~IsWord(t, a - 1))}
        EndOf(a) == CHOOSE b \in a..n :
                        /\ \A j \in a..b : IsWord(t, j)
                        /\ (b = n \/ ~IsWord(t, b + 1))
    IN {SubSeq(t, a, EndOf(a)) : a \in {x \in starts : EndOf(x) - x + 1 >= MinTokenLen}}

\* The MinHash of the token set.  The 128 permuted minima are a function of
\* the token set alone, so the signature is represented by that set.
TokensCased(txt) ==
    LET n == Len(txt)
        starts == {a \in 1..n : IsWord(txt, a) /\ (a = 1 \/ ~IsWord(txt, a - 1))}
        EndOf(a) == CHOOSE b \in a..n :
                        /\ \A j \in a..b : IsWord(txt, j)
                        /\ (b = n \/ ~IsWord(txt, b + 1))
    IN {SubSeq(txt, a, EndOf(a)) : a \in {x \in starts : EndOf(x) - x + 1 >= MinTokenLen}}

text_signature_cased(txt) == TokensCased(txt)

text_signature(txt) == Tokens(txt)

\* ------------------------------------------------------------ event store
\* INSERT OR IGNORE of one row: link is UNIQUE, a conflicting row is skipped
insert_or_ignore_bad(tbl, row) == Append(SelectSeq(tbl, LAMBDA r : r.link # row.link), row)

insert_or_ignore(tbl, row) ==
    IF \E i \in 1..Len(tbl) : tbl[i].link = row.link THEN tbl ELSE Append(tbl, row)

\* cur.executemany(INSERT OR IGNORE ..., rows): the rows in order
RECURSIVE save_events(_, _)
save_events(tbl, rows) ==
    IF rows = <<>> THEN tbl
    ELSE save_events(insert_or_ignore(tbl, Head(rows)), Tail(rows))

\* SQLite round(x, 3) of a coordinate: half away from zero, in 1/1000
round3_bad(v) == IF v < 0 THEN -(Abs(v) \div 100) ELSE v \div 100

round3(v) == IF v < 0 THEN -((Abs(v) + 50) \div 100) ELSE (v + 50) \div 100

\* the GROUP BY key of a stored row
Bucket(row) == <<round3(row.lat), round3(row.lon)>>

BucketLess(a, b) == a[1] < b[1] \/ (a[1] = b[1] /\ a[2] < b[2])

\* SELECT round(lat,3), round(lon,3), COUNT(*) ... GROUP BY round(lat,3), round(lon,3):
\* one row per group, in the sorter's key order
aggregate_by_columns(tbl) ==
    LET keys == {<<tbl[i].lat, tbl[i].lon>> : i \in 1..Len(tbl)}
        Rank(k) == Cardinality({j \in keys : BucketLess(j, k)}) + 1
        KeyAt(n) == CHOOSE k \in keys : Rank(k) = n
        Count(k) == Cardinality({i \in 1..Len(tbl) : <<tbl[i].lat, tbl[i].lon>> = k})
    IN [n \in 1..Cardinality(keys) |->
            <<round3(KeyAt(n)[1]), round3(KeyAt(n)[2]), Count(KeyAt(n))>>]

aggregate(tbl) ==
    LET keys == {Bucket(tbl[i]) : i \in 1..Len(tbl)}
        Rank(k) == Cardinality({j \in keys : BucketLess(j, k)}) + 1
        KeyAt(n) == CHOOSE k \in keys : Rank(k) = n
        Count(k) == Cardinality({i \in 1..Len(tbl) : Bucket(tbl[i]) = k})
    IN [n \in 1..Cardinality(keys) |-> <<KeyAt(n)[1], KeyAt(n)[2], Count(KeyAt(n))>>]

\* ----------------------------------------------------------------- inputs
\* the links the feeds deliver
FeedLinks == {"https://a.example/1", "https://b.example/2"}

\* the links of rows handed to save_events directly
Links == FeedLinks \cup {"https://c.example/3"}

\* what the feed says of a link
FeedItem(link) ==
    [link |-> link, title |-> "Report " \o link, published_at |-> "2024-05-01T00:00:00+00:00"]

\* fetch_rss_items(...)[:top_n]: the lists of items a run may receive
ItemLists == UNION {[1..n -> {FeedItem(l) : l \in FeedLinks}] : n \in 0..MaxItems}

\* the texts fetch_clean_text may return
TextStory == "Police say murder, robbery, fraud, arson and theft rose in Atlantis, Paris and Lima"
TextIsland == "Homicide, assault, kidnapping, extortion and a shooting reported near Null Island, off Lima"
TextNoPlace == "Trafficking, rape, felony, corruption and organized crime are rising, Reuters says"
TextTempo == "Tempo em Lisboa segue ameno no fim de semana"
TextEmpty == ""
Texts == {TextStory, TextIsland, TextNoPlace, TextTempo, TextEmpty}

\* what langdetect.detect may do with a text: a language code, or an exception
Detections(txt) ==
    IF txt = TextTempo THEN {"pt", "es"}
    ELSE IF txt = TextEmpty THEN {"raise"}
    ELSE IF txt = TextIsland THEN {"en", "fr"}
    ELSE {"en"}

\* doc.ents of the spaCy pipeline for a text, as <<text, label>>
Entities(txt) ==
    IF txt = TextStory
    THEN << <<"Police", "ORG">>, <<"Atlantis", "LOC">>, <<"Paris", "GPE">>, <<"Lima", "GPE">>,
            <<" paris ", "GPE">> >>
    ELSE IF txt = TextIsland THEN << <<"Null Island", "LOC">>, <<"Lima", "GPE">> >>
    ELSE IF txt = TextNoPlace THEN << <<"Reuters", "ORG">> >>
    ELSE IF txt = TextTempo THEN << <<"Lisboa", "GPE">> >>
    ELSE <<>>

NoLocation == [none |-> TRUE]
Raised == [raised |-> TRUE]
Location(la, lo) == [latitude |-> la, longitude |-> lo]

\* what rate(n) may return for a name: a Location, None (not found, or a
\* swallowed service error), or an exception the limiter does not swallow
GeocodeAnswers(name) ==
    IF name = "Paris" THEN {Location(4885661, 235222), NoLocation, Raised}
    ELSE IF name = "Lima" THEN {Location(-1204637, -7704279), NoLocation}
    ELSE IF name = "Null Island" THEN {Location(0, 0)}
    ELSE {NoLocation}

\* rows handed to save_events directly
RowVariants ==
    << [title |-> "First", published_at |-> "2024-05-01", lang |-> "en", score |-> 6000,
        lat |-> 123456, lon |-> 987654, place |-> "Alfa", created_at |-> 1],
       [title |-> "Second", published_at |-> "2024-05-02", lang |-> "pt", score |-> 7200,
        lat |-> 123449, lon |-> 987649, place |-> "Beta", created_at |-> 2],
       [title |-> "Third", published_at |-> "2024-05-03", lang |-> "en", score |-> 10000,
        lat |-> 123450, lon |-> 987650, place |-> "Gama", created_at |-> 3],
       [title |-> "Fourth", published_at |-> "2024-05-04", lang |-> "pt", score |-> 8400,
        lat |-> -123456, lon |-> -987654, place |-> "Delta", created_at |-> 4] >>

EventRow(link, v) ==
    [link |-> link, title |-> v.title, published_at |-> v.published_at, lang |-> v.lang,
     score |-> v.score, lat |-> v.lat, lon |-> v.lon, place |-> v.place,
     created_at |-> v.created_at]

RowInputs == {EventRow(l, RowVariants[i]) : l \in Links, i \in 1..Len(RowVariants)}

RowLists == UNION {[1..n -> RowInputs] : n \in 1..MaxRows}

\* ------------------------------------------------------------------ state
NoResult == [none |-> TRUE]

Init ==
    /\ store = <<>>
    /\ pts = <<>>
    /\ pts_from = <<>>
    /\ first_offer = {}
    /\ reoffered = FALSE
    /\ pc = "idle"
    /\ runs = 0
    /\ items = <<>>
    /\ idx = 0
    /\ lsh = {}
    /\ to_save = <<>>
    /\ text = ""
    /\ lang = ""
    /\ s = 0
    /\ places = <<>>
    /\ gi = 0
    /\ geos = <<>>
    /\ limiter_used = FALSE
    /\ elapsed = -1
    /\ calls = <<>>
    /\ outcome = <<>>
    /\ matched = <<>>
    /\ trace = <<>>
    /\ added = <<>>
    /\ result = NoResult

\* --------------------------------------------------- the store, called alone
\* Every field of the two rows but the link differs.
DiffersEverywhere(a, b) ==
    /\ a.title # b.title /\ a.published_at # b.published_at /\ a.lang # b.lang
    /\ a.score # b.score /\ a.lat # b.lat /\ a.lon # b.lon /\ a.place # b.place
    /\ a.created_at # b.created_at

\* bookkeeping of what save_events was given: a row is a first offer when no
\* earlier row had its link, and a re-offer otherwise
RECURSIVE Offered(_, _)
Offered(book, rows) ==
    IF rows = <<>> THEN book
    ELSE LET r == Head(rows)
             known == \E f \in book.first : f.link = r.link
         IN Offered([first |-> IF known THEN book.first ELSE book.first \cup {r},
                     re |-> \/ book.re
                            \/ \E f \in book.first : f.link = r.link /\ DiffersEverywhere(f, r)],
                    Tail(rows))

Book == [first |-> first_offer, re |-> reoffered]

\* save_events(rows)
SaveEventsCall ==
    \E rows \in RowLists :
        /\ store' = save_events(store, rows)
        /\ first_offer' = Offered(Book, rows).first
        /\ reoffered' = Offered(Book, rows).re
        /\ UNCHANGED <<pts, pts_from, pipeVars>>

\* aggregate()
AggregateCall ==
    /\ pts' = aggregate(store)
    /\ pts_from' = store
    /\ UNCHANGED <<store, first_offer, reoffered, pipeVars>>

NextStore == SaveEventsCall \/ AggregateCall

SpecStore == Init /\ [][NextStore]_vars

\* ------------------------------------------------------------ run_pipeline
Langs == {"pt", "en"}

\* lang_of: "pt" when detect's answer starts with pt, "en" otherwise and
\* when detect raises
lang_of_pt_fallback(d) == IF d = "raise" THEN "pt" ELSE IF StartsWith(d, "pt") THEN "pt" ELSE "en"

lang_of(d) == IF d = "raise" THEN "en" ELSE IF StartsWith(d, "pt") THEN "pt" ELSE "en"

\* crime_score and text_signature of the texts, computed once
ScoreOf == [t \in Texts |-> [lg \in Langs |-> crime_score(t, lg)]]
SignatureOf == [t \in Texts |-> text_signature(t)]

\* the gate: if s < 0.6: continue
Passes_any(sc) == sc > 0

Passes(sc) == ~(sc < MinScore)

\* hashlib.sha1(link.encode()).hexdigest(): one digest per link
Sha1(link) == <<"sha1", link>>

\* build_lsh(): a new, empty MinHashLSH index
build_lsh_kept == lsh

build_lsh == {}

Keys(index) == {e[1] : e \in index}

\* ---------------------------------------------- MinHash and the LSH index
\* texts around TextStory: the same tokens in another spelling, one token
\* more (8 of 9 tokens shared, twice), half of the tokens, and none of them
TextStoryCaps == "POLICE SAY: MURDER, ROBBERY, FRAUD, ARSON, THEFT - ROSE IN ATLANTIS; PARIS; LIMA"
TextStoryWire == "Police say murder, robbery, fraud, arson and theft rose in Atlantis, Paris and Lima - newswire"
TextStoryAgency == "Police say murder, robbery, fraud, arson and theft rose in Atlantis, Paris and Lima - agency"
TextStoryShort == "Police say murder and robbery rose in Atlantis"
IndexTexts ==
    {TextStory, TextStoryCaps, TextStoryWire, TextStoryAgency, TextStoryShort, TextIsland}

IndexSignatureOf == [t \in IndexTexts |-> text_signature(t)]

\* the signatures the texts have
KnownSignatures ==
    {SignatureOf[t] : t \in Texts} \cup {IndexSignatureOf[t] : t \in IndexTexts}

\* m.update(t.encode()) hashes the token with sha1_hash32, the first four
\* bytes of its SHA-1 digest read as a little-endian integer: here as
\* <<high 16 bits, low 16 bits>>, for the tokens of the texts
Sha1Hash32 ==
    "ARSON" :> <<19959, 46658>> @@ "ATLANTIS" :> <<34587, 35327>> @@ "Atlantis" :> <<58374, 19674>> @@
    "FRAUD" :> <<60179, 56977>> @@ "Homicide" :> <<12348, 1040>> @@ "Island" :> <<11635, 10771>> @@
    "Lisboa" :> <<47444, 2042>> @@ "MURDER" :> <<29360, 27852>> @@ "PARIS" :> <<23926, 31023>> @@
    "POLICE" :> <<12089, 64593>> @@ "Paris" :> <<53514, 14626>> @@ "Police" :> <<22465, 57253>> @@
    "ROBBERY" :> <<52011, 37788>> @@ "Reuters" :> <<26853, 35296>> @@ "THEFT" :> <<21195, 30352>> @@
    "Tempo" :> <<57944, 38537>> @@ "Trafficking" :> <<48101, 46912>> @@ "agency" :> <<54123, 34956>> @@
    "ameno" :> <<17111, 45901>> @@ "arson" :> <<30309, 405>> @@ "assault" :> <<45508, 31400>> @@
    "atlantis" :> <<35443, 12868>> @@ "corruption" :> <<30589, 22724>> @@ "crime" :> <<28466, 57037>> @@
    "extortion" :> <<51389, 38191>> @@ "felony" :> <<16081, 15026>> @@ "fraud" :> <<49177, 57504>> @@
    "homicide" :> <<58591, 39839>> @@ "island" :> <<1961, 53627>> @@ "kidnapping" :> <<38948, 3878>> @@
    "lisboa" :> <<63167, 2832>> @@ "murder" :> <<28494, 45279>> @@ "newswire" :> <<25319, 24906>> @@
    "organized" :> <<43018, 40452>> @@ "paris" :> <<53460, 19260>> @@ "police" :> <<15242, 34030>> @@
    "reported" :> <<55121, 13677>> @@ "reuters" :> <<57661, 22434>> @@ "rising" :> <<11575, 16464>> @@
    "robbery" :> <<53567, 37583>> @@ "segue" :> <<46856, 22535>> @@ "semana" :> <<16006, 1498>> @@
    "shooting" :> <<28993, 45731>> @@ "tempo" :> <<57910, 58213>> @@ "theft" :> <<6915, 63037>> @@
    "trafficking" :> <<20319, 36979>>

\* MinHash(num_perm=128), seed 1: the 128 pairs (a, b) drawn from
\* numpy.random.RandomState(1) with 1 <= a < 2^61 - 1 and 0 <= b < 2^61 - 1,
\* each number as four 16-bit limbs, lowest first
permutations ==
    <<
    << <<33004, 65351, 62501, 2753>>, <<5192, 61116, 12172, 6247>> >>,
    << <<50058, 8396, 32511, 7>>, <<7813, 65473, 43723, 3429>> >>,
    << <<21441, 15472, 52047, 1425>>, <<20609, 25990, 32912, 6051>> >>,
    << <<7752, 25422, 49100, 4014>>, <<31228, 43892, 43757, 6262>> >>,
    << <<32026, 61311, 36230, 1426>>, <<54548, 55463, 58546, 2543>> >>,
    << <<45414, 20530, 21758, 2896>>, <<51668, 34376, 35730, 3946>> >>,
    << <<8445, 29062, 64395, 5206>>, <<37532, 15045, 19946, 204>> >>,
    << <<22927, 35023, 57245, 1794>>, <<27204, 59897, 49714, 2979>> >>,
    << <<24536, 29963, 31959, 2772>>, <<17137, 28226, 19433, 3846>> >>,
    << <<44511, 61546, 26103, 1008>>, <<33878, 51012, 51040, 4790>> >>,
    << <<55274, 46921, 39053, 3325>>, <<33799, 52609, 64905, 6111>> >>,
    << <<52030, 6081, 37183, 4156>>, <<42297, 33957, 3606, 4412>> >>,
    << <<63361, 56689, 2561, 91>>, <<63697, 54338, 61756, 1284>> >>,
    << <<58073, 54368, 29960, 5573>>, <<39539, 17894, 32397, 2559>> >>,
    << <<36843, 3882, 431, 2938>>, <<47560, 43943, 62073, 205>> >>,
    << <<9288, 38867, 16926, 6445>>, <<34246, 44017, 46467, 3021>> >>,
    << <<60978, 26986, 16277, 5432>>, <<45571, 12946, 34105, 2173>> >>,
    << <<11033, 18981, 56260, 4382>>, <<64555, 9313, 41457, 4293>> >>,
    << <<19483, 51335, 34380, 4030>>, <<9552, 27036, 1844, 5546>> >>,
    << <<29556, 2239, 35437, 1198>>, <<28114, 40896, 29993, 9>> >>,
    << <<27713, 43295, 15, 7462>>, <<12313, 19562, 51396, 8071>> >>,
    << <<57059, 29237, 11631, 1995>>, <<10119, 14557, 13783, 2574>> >>,
    << <<65178, 4807, 1306, 6765>>, <<1046, 30752, 9832, 4777>> >>,
    << <<48836, 6302, 46857, 2201>>, <<17534, 59203, 19431, 2858>> >>,
    << <<60798, 7830, 42263, 2475>>, <<16539, 34393, 36196, 329>> >>,
    << <<20794, 5480, 15269, 1269>>, <<27814, 60087, 10835, 3528>> >>,
    << <<9505, 59667, 17032, 5677>>, <<44810, 19590, 56738, 1018>> >>,
    << <<34448, 38298, 48407, 7639>>, <<40023, 37087, 10991, 3497>> >>,
    << <<4040, 40235, 24345, 4857>>, <<34140, 62687, 243, 1424>> >>,
    << <<33983, 17103, 47690, 5852>>, <<54176, 15139, 23854, 4899>> >>,
    << <<5272, 34960, 38616, 6706>>, <<9537, 62255, 37559, 2559>> >>,
    << <<10062, 32313, 13681, 4548>>, <<52096, 35428, 42755, 2567>> >>,
    << <<54526, 50166, 49144, 3273>>, <<50950, 2971, 33229, 2352>> >>,
    << <<53718, 9172, 29236, 2542>>, <<62978, 51930, 50630, 975>> >>,
    << <<4060, 1953, 63052, 4560>>, <<33483, 57876, 30869, 5672>> >>,
    << <<6222, 35441, 22791, 1861>>, <<54347, 29358, 35528, 817>> >>,
    << <<1068, 58467, 40268, 935>>, <<24094, 24745, 12820, 3761>> >>,
    << <<13160, 35286, 9764, 1486>>, <<3885, 42749, 42759, 2644>> >>,
    << <<39482, 23675, 13252, 3441>>, <<40444, 37421, 12016, 6407>> >>,
    << <<16481, 41801, 14546, 53>>, <<11274, 8278, 269, 6619>> >>,
    << <<16253, 45233, 22807, 544>>, <<59271, 42450, 64337, 8104>> >>,
    << <<49305, 23195, 50041, 61>>, <<15836, 50019, 26314, 6481>> >>,
    << <<43425, 23365, 65172, 1305>>, <<48321, 49334, 52364, 1368>> >>,
    << <<40509, 57759, 25182, 3479>>, <<49304, 764, 49641, 5887>> >>,
    << <<4980, 32644, 19794, 2519>>, <<2178, 4836, 29537, 7975>> >>,
    << <<42717, 51573, 65004, 7519>>, <<46946, 4198, 47719, 4881>> >>,
    << <<40631, 23285, 28938, 4909>>, <<14825, 61724, 22368, 5137>> >>,
    << <<51671, 24890, 42834, 2171>>, <<47810, 49998, 52422, 7341>> >>,
    << <<16360, 50567, 57671, 1859>>, <<63030, 19749, 43184, 4828>> >>,
    << <<15238, 50642, 7183, 188>>, <<26794, 10022, 13713, 7677>> >>,
    << <<23159, 37921, 20, 5023>>, <<22806, 590, 18352, 1773>> >>,
    << <<53134, 46467, 6629, 717>>, <<60018, 30843, 2033, 7030>> >>,
    << <<22198, 50108, 49761, 2197>>, <<3082, 30631, 34644, 8084>> >>,
    << <<16568, 17629, 56416, 1036>>, <<52792, 54505, 39229, 3567>> >>,
    << <<41366, 36131, 40665, 4318>>, <<56416, 4592, 36071, 8016>> >>,
    << <<8148, 30964, 33273, 3102>>, <<54769, 48677, 21529, 795>> >>,
    << <<2190, 12580, 37774, 3774>>, <<7796, 30429, 44244, 4706>> >>,
    << <<3719, 15097, 25387, 4325>>, <<33464, 33308, 1741, 358>> >>,
    << <<48016, 13668, 1979, 254>>, <<13307, 3231, 22040, 3147>> >>,
    << <<8643, 34004, 31881, 5670>>, <<28469, 11290, 14535, 8144>> >>,
    << <<51621, 25972, 56645, 1302>>, <<19192, 7036, 50021, 1717>> >>,
    << <<60713, 33410, 6165, 1855>>, <<35035, 6693, 45133, 7943>> >>,
    << <<26994, 18921, 51889, 7210>>, <<34253, 15188, 54575, 2544>> >>,
    << <<5583, 63417, 48552, 3461>>, <<59223, 18239, 22061, 6031>> >>,
    << <<44957, 15310, 53904, 8137>>, <<15917, 6000, 38122, 1912>> >>,
    << <<58229, 37359, 20931, 5620>>, <<15310, 27389, 27970, 6199>> >>,
    << <<63873, 24106, 44334, 3999>>, <<28735, 53280, 4509, 1222>> >>,
    << <<46628, 18989, 17227, 3318>>, <<63965, 47014, 13237, 7076>> >>,
    << <<10883, 40170, 29217, 3742>>, <<63059, 27977, 54740, 842>> >>,
    << <<48951, 49274, 5168, 7441>>, <<8445, 28037, 23840, 8003>> >>,
    << <<30776, 28074, 49820, 3685>>, <<50463, 23717, 47826, 750>> >>,
    << <<12511, 10049, 50204, 3926>>, <<46216, 61419, 23882, 7952>> >>,
    << <<54884, 60057, 49261, 2919>>, <<28168, 51246, 48160, 7044>> >>,
    << <<48078, 40391, 5716, 6600>>, <<16975, 2359, 29234, 5766>> >>,
    << <<49985, 42881, 40105, 3913>>, <<38099, 8504, 56940, 822>> >>,
    << <<9330, 19291, 59416, 4716>>, <<23316, 23646, 27626, 6047>> >>,
    << <<9488, 17999, 2092, 4463>>, <<41435, 4847, 1694, 5131>> >>,
    << <<30196, 9970, 27534, 152>>, <<54523, 10591, 24339, 7787>> >>,
    << <<26860, 61519, 43674, 4615>>, <<41351, 24322, 61526, 5331>> >>,
    << <<64566, 3277, 15075, 6227>>, <<17262, 48559, 50607, 6345>> >>,
    << <<20212, 19574, 43452, 7526>>, <<53348, 13392, 45346, 7783>> >>,
    << <<26401, 64340, 27364, 7861>>, <<2499, 58525, 6035, 5176>> >>,
    << <<44756, 49764, 31512, 2083>>, <<54878, 42671, 26853, 1217>> >>,
    << <<45744, 2600, 63654, 4588>>, <<13189, 53338, 7399, 7297>> >>,
    << <<65088, 49975, 26703, 6968>>, <<25687, 29837, 16241, 4512>> >>,
    << <<50987, 34853, 43424, 4414>>, <<29378, 7165, 62154, 7445>> >>,
    << <<26339, 9570, 11992, 5226>>, <<64145, 33343, 61086, 336>> >>,
    << <<56129, 14132, 61764, 3338>>, <<3572, 60060, 15548, 7886>> >>,
    << <<41106, 30287, 55502, 2898>>, <<17571, 8668, 50343, 977>> >>,
    << <<22173, 50085, 20945, 4347>>, <<46886, 13941, 54934, 7869>> >>,
    << <<39371, 4866, 10921, 309>>, <<25926, 6253, 63181, 5581>> >>,
    << <<19687, 10630, 38553, 180>>, <<13360, 23361, 35056, 4360>> >>,
    << <<6079, 6246, 690, 676>>, <<57961, 9388, 25900, 3588>> >>,
    << <<56577, 61014, 59574, 4484>>, <<1527, 37787, 46422, 947>> >>,
    << <<64788, 55026, 51984, 1616>>, <<4720, 40848, 14089, 3264>> >>,
    << <<37940, 21267, 27356, 871>>, <<63626, 47710, 54127, 4322>> >>,
    << <<4421, 34258, 18555, 7213>>, <<44302, 48287, 30103, 1453>> >>,
    << <<3606, 10840, 40639, 2150>>, <<3452, 45027, 47278, 3733>> >>,
    << <<31161, 27971, 21635, 914>>, <<48336, 47746, 10072, 7167>> >>,
    << <<12855, 49567, 12206, 7653>>, <<55879, 26057, 48079, 4850>> >>,
    << <<59919, 60633, 48636, 4926>>, <<16527, 13337, 53965, 3712>> >>,
    << <<30518, 524, 11673, 2661>>, <<20985, 60709, 44756, 1085>> >>,
    << <<7126, 19301, 35770, 983>>, <<22254, 10941, 57970, 7273>> >>,
    << <<34349, 1579, 6045, 6836>>, <<24726, 29622, 11301, 3247>> >>,
    << <<18871, 52975, 14811, 3354>>, <<61964, 24141, 7500, 2866>> >>,
    << <<64828, 39924, 37240, 1302>>, <<51148, 2283, 24474, 5784>> >>,
    << <<37592, 23237, 23495, 3208>>, <<57981, 5145, 8615, 87>> >>,
    << <<38349, 45428, 35883, 660>>, <<8998, 833, 4978, 371>> >>,
    << <<49777, 30116, 42587, 1410>>, <<58181, 63000, 11517, 4782>> >>,
    << <<10658, 21901, 55010, 5053>>, <<30106, 30938, 18603, 984>> >>,
    << <<60358, 6906, 12984, 3355>>, <<38196, 32969, 7753, 5378>> >>,
    << <<37404, 58044, 601, 393>>, <<62465, 35020, 51243, 3898>> >>,
    << <<56448, 18446, 43346, 6208>>, <<4064, 23238, 57950, 4266>> >>,
    << <<40789, 58738, 57754, 5374>>, <<15207, 15826, 8734, 251>> >>,
    << <<17559, 1565, 33856, 6208>>, <<57140, 63289, 51810, 1991>> >>,
    << <<24647, 28178, 46723, 5562>>, <<23847, 22694, 25228, 3037>> >>,
    << <<46164, 37818, 18662, 3185>>, <<1200, 8292, 57071, 2340>> >>,
    << <<2503, 62262, 16701, 7553>>, <<52388, 20552, 19213, 6495>> >>,
    << <<48535, 62444, 64791, 1017>>, <<40570, 14312, 26050, 6126>> >>,
    << <<53498, 16298, 27100, 3845>>, <<7519, 56610, 11754, 3759>> >>,
    << <<35722, 15418, 57909, 4275>>, <<26041, 53418, 23209, 1172>> >>,
    << <<55662, 35644, 29528, 5102>>, <<28381, 12534, 19190, 3867>> >>,
    << <<14029, 38590, 47860, 2485>>, <<45418, 3154, 4946, 7342>> >>,
    << <<16490, 1040, 65419, 3532>>, <<56432, 3257, 53284, 2961>> >>,
    << <<5279, 26176, 29840, 3543>>, <<64106, 37807, 31859, 2857>> >>,
    << <<40890, 56853, 22740, 26>>, <<60841, 51521, 58147, 6668>> >>,
    << <<13059, 16692, 37201, 103>>, <<43101, 5390, 57557, 6473>> >>,
    << <<45678, 10338, 44196, 6862>>, <<21328, 13729, 15662, 5167>> >> >>

NumPerm == Len(permutations)

\* _max_hash, the initial hash value: 2^32 - 1 as <<high 16 bits, low 16 bits>>
MaxHash == <<65535, 65535>>

\* ((a * hv + b) % (2^61 - 1)) & (2^32 - 1) in 64-bit unsigned arithmetic,
\* the product and the sum wrapping at 2^64; columns in base 256
Permute(perm, hv) ==
    LET a == perm[1]
        b == perm[2]
        h0 == hv[2] % 256
        h1 == hv[2] \div 256
        h2 == hv[1] % 256
        h3 == hv[1] \div 256
        \* a * hv + b modulo 2^64: bytes x0 (lowest) to x7
        t0 == a[1] * h0 + b[1]
        t1 == a[1] * h1 + t0 \div 256
        t2 == a[1] * h2 + a[2] * h0 + b[2] + t1 \div 256
        t3 == a[1] * h3 + a[2] * h1 + t2 \div 256
        t4 == a[2] * h2 + a[3] * h0 + b[3] + t3 \div 256
        t5 == a[2] * h3 + a[3] * h1 + t4 \div 256
        t6 == a[3] * h2 + a[4] * h0 + b[4] + t5 \div 256
        t7 == a[3] * h3 + a[4] * h1 + t6 \div 256
        x7 == t7 % 256
        \* modulo 2^61 - 1: the bits from 2^61 up are added to the low 61 bits
        u0 == (t0 % 256) + x7 \div 32
        u1 == (t1 % 256) + u0 \div 256
        u2 == (t2 % 256) + u1 \div 256
        u3 == (t3 % 256) + u2 \div 256
        u4 == (t4 % 256) + u3 \div 256
        u5 == (t5 % 256) + u4 \div 256
        u6 == (t6 % 256) + u5 \div 256
        u7 == (x7 % 32) + u6 \div 256
        ones == \A u \in {u0, u1, u2, u3, u4, u5, u6} : u % 256 = 255
    IN IF u7 >= 32 THEN <<0, (u0 % 256) + 1>>
       ELSE IF u7 = 31 /\ ones THEN <<0, 0>>
       ELSE <<(u3 % 256) * 256 + (u2 % 256), (u1 % 256) * 256 + (u0 % 256)>>

\* the permuted hash values of the tokens, computed once
PermutedOf ==
    [tok \in DOMAIN Sha1Hash32 |-> [i \in 1..NumPerm |-> Permute(permutations[i], Sha1Hash32[tok])]]

HashLess(x, y) == x[1] < y[1] \/ (x[1] = y[1] /\ x[2] < y[2])

\* MinHash.hashvalues after update(token) for every token of the set: per
\* permutation the least permuted hash, _max_hash when there is no token
hashvalues(tokens) ==
    [i \in 1..NumPerm |->
        IF tokens = {} THEN MaxHash
        ELSE LET vals == {PermutedOf[tok][i] : tok \in tokens}
             IN IF \E v \in vals : HashLess(MaxHash, v) THEN MaxHash
                ELSE CHOOSE v \in vals : \A w \in vals : ~HashLess(w, v)]

HashValuesOf == [sg \in KnownSignatures |-> hashvalues(sg)]

\* MinHashLSH(threshold=0.85, num_perm=128) with the default weights
\* (0.5, 0.5) splits the 128 hash values into b bands of r values, the
\* pair with b * r <= 128 for which the area of the false positives below
\* 0.85 plus that of the false negatives above it is least
LshParams == [b |-> 8, r |-> 16]

\* the hash values a signature is filed under in band k
Band(hv, k) == SubSeq(hv, (k - 1) * LshParams.r + 1, k * LshParams.r)

\* two signatures are filed under the same hash values in some band
SharesBand(hv1, hv2) == \E k \in 1..LshParams.b : Band(hv1, k) = Band(hv2, k)

\* the pairs of signatures that share a band, computed once
Collisions ==
    {pr \in KnownSignatures \X KnownSignatures :
        SharesBand(HashValuesOf[pr[1]], HashValuesOf[pr[2]])}

\* lsh.query(sig): the keys of the stored signatures that share a band with
\* sig; the candidates are returned as found, without a similarity check.
\* The set of the results a query may give: this one.
QueryResults_none(index, sig) == {{}}

QueryResults(index, sig) ==
    {{e[1] : e \in {x \in index : <<x[2], sig>> \in Collisions}}}

\* extract_places keeps at most 5 names
MaxPlaces == 5

\* the loop of extract_places: stripped, first of each lower-cased name kept
RECURSIVE Uniq(_, _, _)
Uniq(vals, seen, uniq) ==
    IF vals = <<>> THEN uniq
    ELSE LET k == Strip(Head(vals))
         IN IF k # "" /\ Lower(k) \notin seen
            THEN Uniq(Tail(vals), seen \cup {Lower(k)}, Append(uniq, k))
            ELSE Uniq(Tail(vals), seen, uniq)

extract_places(ents) ==
    LET labelled == SelectSeq(ents, LAMBDA e : e[2] \in {"GPE", "LOC"})
        vals == [i \in 1..Len(labelled) |-> labelled[i][1]]
        uniq == Uniq(vals, {}, <<>>)
    IN SubSeq(uniq, 1, Min(Len(uniq), MaxPlaces))

PlacesOf == [t \in Texts |-> extract_places(Entities(t))]

\* RateLimiter(min_delay_seconds=1), in half seconds
MinDelay == 2

\* time.sleep(0.5), in half seconds
SleepTime == 1

\* geocode_places keeps an answer  if g and g.latitude and g.longitude
Keeps(g) == g # NoLocation /\ g.latitude # 0 /\ g.longitude # 0

\* the entry geocode_places appends for a kept answer
GeoEntry(g, name) == <<g.latitude, g.longitude, name>>

\* for n in names: the loop goes on while names are left
MoreNames_stop_at_first(names, i, out) == i <= Len(names) /\ out = <<>>

MoreNames(names, i, out) == i <= Len(names)

\* if not geos: continue;  lat, lon, place = geos[0]
NoSelection == <<>>

Selected_default(out) == IF out = <<>> THEN <<0, 0, "">> ELSE out[1]

Selected(out) == IF out = <<>> THEN NoSelection ELSE out[1]

\* the clock after d more half seconds
Later(e, d) == IF e = -1 THEN -1 ELSE Min(e + d, MinDelay)

\* the time a request is known to come after the run's previous request
\* (-1: there was none): the limiter holds a call until min_delay_seconds
\* after its own previous call, and lets its first call through at once
Gap(used, e) == IF used THEN MinDelay ELSE e

\* every answer the geocoder gave was None (also when it was asked nothing)
AllNone(cs) == \A i \in 1..Len(cs) : cs[i][2] = NoLocation

NoTrace ==
    [text |-> "", detected |-> "", lang |-> "", score |-> -1, indexed |-> FALSE,
     geocoded |-> FALSE, all_none |-> FALSE]

\* the item in process is over, with outcome o: the loop goes to the next item
EndItem(o) ==
    /\ outcome' = [outcome EXCEPT ![idx] = o]
    /\ idx' = idx + 1
    /\ pc' = IF idx = Len(items) THEN "finish" ELSE "text"
    /\ text' = "" /\ lang' = "" /\ s' = 0
    /\ places' = <<>> /\ gi' = 0 /\ geos' = <<>> /\ limiter_used' = FALSE /\ calls' = <<>>

\* an exception inside the loop body: except Exception: continue
OnException_propagate ==
    /\ outcome' = [outcome EXCEPT ![idx] = "Failed"]
    /\ pc' = "raised"
    /\ UNCHANGED <<idx, text, lang, s, places, gi, geos, limiter_used, calls>>

OnException == EndItem("Failed")

storeVars == <<store, pts, pts_from, first_offer, reoffered>>

\* run_pipeline up to the loop: ensure_db, load_pipelines, the items, a new index
StartRun ==
    /\ pc = "idle"
    /\ runs < MaxRuns
    /\ \E its \in ItemLists :
        /\ items' = its
        /\ outcome' = [i \in 1..Len(its) |-> "Pending"]
        /\ matched' = [i \in 1..Len(its) |-> {}]
        /\ trace' = [i \in 1..Len(its) |-> NoTrace]
        /\ pc' = IF its = <<>> THEN "finish" ELSE "text"
    /\ runs' = runs + 1
    /\ idx' = 1
    /\ lsh' = build_lsh
    /\ to_save' = <<>>
    /\ elapsed' = -1
    /\ added' = <<>>
    /\ result' = NoResult
    /\ UNCHANGED <<storeVars, text, lang, s, places, gi, geos, limiter_used, calls>>

\* fetch_clean_text raises
FetchFails ==
    /\ pc = "text"
    /\ OnException
    /\ UNCHANGED <<storeVars, runs, items, lsh, to_save, elapsed, matched, trace, added, result>>

\* s < 0.6: continue
RejectLowScore ==
    /\ pc = "text"
    /\ \E t \in Texts : \E d \in Detections(t) :
        /\ ~Passes(ScoreOf[t][lang_of(d)])
        /\ trace' = [trace EXCEPT ![idx].text = t, ![idx].detected = d,
                                  ![idx].lang = lang_of(d),
                                  ![idx].score = ScoreOf[t][lang_of(d)]]
    /\ EndItem("LowScore")
    /\ UNCHANGED <<storeVars, runs, items, lsh, to_save, elapsed, matched, added, result>>

\* lsh.query(sig) is not empty: continue
RejectDuplicate ==
    /\ pc = "text"
    /\ \E t \in Texts : \E d \in Detections(t) :
        /\ Passes(ScoreOf[t][lang_of(d)])
        /\ trace' = [trace EXCEPT ![idx].text = t, ![idx].detected = d,
                                  ![idx].lang = lang_of(d),
                                  ![idx].score = ScoreOf[t][lang_of(d)]]
        /\ \E q \in QueryResults(lsh, SignatureOf[t]) :
            /\ q # {}
            /\ matched' = [matched EXCEPT ![idx] = q]
    /\ EndItem("Duplicate")
    /\ UNCHANGED <<storeVars, runs, items, lsh, to_save, elapsed, added, result>>

\* lsh.insert(key, sig) raises ValueError: the key is in the index already
InsertFails ==
    /\ pc = "text"
    /\ Sha1(items[idx].link) \in Keys(lsh)
    /\ \E t \in Texts : \E d \in Detections(t) :
        /\ Passes(ScoreOf[t][lang_of(d)])
        /\ {} \in QueryResults(lsh, SignatureOf[t])
        /\ trace' = [trace EXCEPT ![idx].text = t, ![idx].detected = d,
                                  ![idx].lang = lang_of(d),
                                  ![idx].score = ScoreOf[t][lang_of(d)]]
    /\ OnException
    /\ UNCHANGED <<storeVars, runs, items, lsh, to_save, elapsed, matched, added, result>>

\* the text passes the gate and the index: its signature is inserted
AcceptText ==
    /\ pc = "text"
    /\ Sha1(items[idx].link) \notin Keys(lsh)
    /\ \E t \in Texts : \E d \in Detections(t) :
        /\ Passes(ScoreOf[t][lang_of(d)])
        /\ {} \in QueryResults(lsh, SignatureOf[t])
        /\ text' = t
        /\ lang' = lang_of(d)
        /\ s' = ScoreOf[t][lang_of(d)]
        /\ lsh' = lsh \cup {<<Sha1(items[idx].link), SignatureOf[t]>>}
        /\ trace' = [trace EXCEPT ![idx].text = t, ![idx].detected = d,
                                  ![idx].lang = lang_of(d),
                                  ![idx].score = ScoreOf[t][lang_of(d)],
                                  ![idx].indexed = TRUE]
    /\ pc' = "places"
    /\ UNCHANGED <<storeVars, runs, items, idx, to_save, places, gi, geos, limiter_used,
                   elapsed, calls, outcome, matched, added, result>>

\* nlp[lang](text) raises
ExtractFails ==
    /\ pc = "places"
    /\ OnException
    /\ UNCHANGED <<storeVars, runs, items, lsh, to_save, elapsed, matched, trace, added, result>>

\* places = extract_places(text, nlp, lang); geocode_places starts: a new
\* RateLimiter, an empty out
ExtractPlaces ==
    /\ pc = "places"
    /\ places' = PlacesOf[text]
    /\ gi' = 1
    /\ geos' = <<>>
    /\ limiter_used' = FALSE
    /\ calls' = <<>>
    /\ pc' = "geocode"
    /\ trace' = [trace EXCEPT ![idx].geocoded = TRUE]
    /\ UNCHANGED <<storeVars, runs, items, idx, lsh, to_save, text, lang, s, elapsed,
                   outcome, matched, added, result>>

\* g = rate(n) answers; the answer is kept or dropped.  The limiter lets its
\* first call through at once and holds a later one until min_delay_seconds
\* after its previous call.
GeocodeCall ==
    /\ pc = "geocode"
    /\ MoreNames(places, gi, geos)
    /\ \E g \in GeocodeAnswers(places[gi]) \ {Raised} :
        /\ geos' = IF Keeps(g) THEN Append(geos, GeoEntry(g, places[gi])) ELSE geos
        /\ calls' = Append(calls, <<places[gi], g, Gap(limiter_used, elapsed)>>)
    /\ gi' = gi + 1
    /\ limiter_used' = TRUE
    /\ elapsed' = 0
    /\ UNCHANGED <<storeVars, pc, runs, items, idx, lsh, to_save, text, lang, s, places,
                   outcome, matched, trace, added, result>>

\* g = rate(n) raises
GeocodeFails ==
    /\ pc = "geocode"
    /\ MoreNames(places, gi, geos)
    /\ Raised \in GeocodeAnswers(places[gi])
    /\ elapsed' = 0
    /\ OnException
    /\ UNCHANGED <<storeVars, runs, items, lsh, to_save, matched, trace, added, result>>

\* if not geos: continue
PlaceUnresolved ==
    /\ pc = "geocode"
    /\ ~MoreNames(places, gi, geos)
    /\ Selected(geos) = NoSelection
    /\ trace' = [trace EXCEPT ![idx].all_none = AllNone(calls)]
    /\ EndItem("PlaceUnresolved")
    /\ UNCHANGED <<storeVars, runs, items, lsh, to_save, elapsed, matched, added, result>>

\* lat, lon, place = geos[0]; to_save.append(...); time.sleep(0.5)
SaveItem ==
    /\ pc = "geocode"
    /\ ~MoreNames(places, gi, geos)
    /\ Selected(geos) # NoSelection
    /\ to_save' = Append(to_save,
            [link |-> items[idx].link, title |-> items[idx].title,
             published_at |-> items[idx].published_at, lang |-> lang, score |-> s,
             lat |-> Selected(geos)[1], lon |-> Selected(geos)[2],
             place |-> Selected(geos)[3], created_at |-> runs])
    /\ elapsed' = Later(elapsed, SleepTime)
    /\ trace' = [trace EXCEPT ![idx].all_none = AllNone(calls)]
    /\ EndItem("Saved")
    /\ UNCHANGED <<storeVars, runs, items, lsh, matched, added, result>>

\* after the loop: save_events(to_save) if any, aggregate, build_heatmap, return
Finish ==
    /\ pc = "finish"
    /\ store' = IF to_save # <<>> THEN save_events(store, to_save) ELSE store
    /\ first_offer' = Offered(Book, to_save).first
    /\ reoffered' = Offered(Book, to_save).re
    /\ added' = SubSeq(store', Len(store) + 1, Len(store'))
    /\ pts' = aggregate(store')
    /\ pts_from' = store'
    /\ result' = [inserted |-> Len(to_save), points |-> Len(pts'),
                  heatmap_file |-> "heatmap.html"]
    /\ pc' = "idle"
    /\ UNCHANGED <<runs, items, idx, lsh, to_save, text, lang, s, places, gi, geos,
                   limiter_used, elapsed, calls, outcome, matched, trace>>

Next ==
    \/ StartRun
    \/ FetchFails
    \/ RejectLowScore
    \/ RejectDuplicate
    \/ InsertFails
    \/ AcceptText
    \/ ExtractFails
    \/ ExtractPlaces
    \/ GeocodeCall
    \/ GeocodeFails
    \/ PlaceUnresolved
    \/ SaveItem
    \/ Finish

Spec == Init /\ [][Next]_vars

\* ------------------------------------------------- the scorer, called alone
\* longest list of phrases in a short text, largest number of filler blocks
\* in a long one
MaxPhrases == 2
MaxPads == 4

\* pieces of text: keywords of both languages in mixed case, a keyword of
\* one language inside a word of the other (fraud in fraude), no keyword
ScorePhrases ==
    {"Murder, ROBBERY, theft, fraud, arson and felony; ",
     "Homicídio, roubo, furto, fraude, TRÁFICO e milícia; ",
     "organized crime, shooting. ",
     "sequestro e extorsão, ",
     "weather report. "}

RECURSIVE Repeat(_, _)
Repeat(str, n) ==
    IF n = 0 THEN ""
    ELSE IF n = 1 THEN str
    ELSE Repeat(str, n \div 2) \o Repeat(str, n - n \div 2)

\* 500 characters without a keyword
FillerBlock == Repeat("lorem ipsum dolor - ", 25)

RECURSIVE Join(_)
Join(ws) == IF ws = <<>> THEN "" ELSE Head(ws) \o Join(Tail(ws))

\* the texts crime_score is called with: up to MaxPhrases phrases in a row,
\* and at most one phrase followed by 500 to 500 * MaxPads filler characters
ScoreTexts ==
    {Join(ws) : ws \in UNION {[1..n -> ScorePhrases] : n \in 0..MaxPhrases}}
    \cup {p \o Repeat(FillerBlock, k) : p \in ScorePhrases \cup {""}, k \in 1..MaxPads}

\* s = crime_score(text, lang), called once on a text and a language
ScoreCall ==
    /\ lang = ""
    /\ \E t \in ScoreTexts, lg \in Langs :
        /\ text' = t
        /\ lang' = lg
        /\ s' = crime_score(t, lg)
    /\ UNCHANGED <<storeVars, pc, runs, items, idx, lsh, to_save, places, gi, geos,
                   limiter_used, elapsed, calls, outcome, matched, trace, added, result>>

NextScore == ScoreCall

SpecScore == Init /\ [][NextScore]_vars

\* -------------------------------------------------- the index, called alone
\* lsh.insert(key, text_signature(text)) with a key the index does not hold
IndexInsert ==
    /\ \E l \in Links, t \in IndexTexts :
        /\ Sha1(l) \notin Keys(lsh)
        /\ lsh' = lsh \cup {<<Sha1(l), IndexSignatureOf[t]>>}
        /\ trace' = Append(trace, [NoTrace EXCEPT !.text = t, !.indexed = TRUE])
    /\ text' = ""
    /\ matched' = <<>>
    /\ UNCHANGED <<storeVars, pc, runs, items, idx, to_save, lang, s, places, gi, geos,
                   limiter_used, elapsed, calls, outcome, added, result>>

\* lsh.query(text_signature(text))
IndexQuery ==
    /\ \E t \in IndexTexts :
        /\ text' = t
        /\ \E q \in QueryResults(lsh, IndexSignatureOf[t]) : matched' = <<q>>
    /\ UNCHANGED <<storeVars, pc, runs, items, idx, lsh, to_save, lang, s, places, gi, geos,
                   limiter_used, elapsed, calls, outcome, trace, added, result>>

NextIndex == IndexInsert \/ IndexQuery

SpecIndex == Init /\ [][NextIndex]_vars

\* ------------------------------------------------------------------ claims
Rows(tbl) == {tbl[i] : i \in 1..Len(tbl)}

\* C1: after any sequence of save_events calls the table holds exactly one
\* row per link ever offered, and that row is the first one offered for the
\* link: a later row with a stored link changes nothing.
C1_OneEventPerLink ==
    /\ Rows(store) = first_offer
    /\ Len(store) = Cardinality({r.link : r \in first_offer})
    /\ \A i, j \in 1..Len(store) : i # j => store[i].link # store[j].link

\* a link was offered again with every other field changed
C1_Witness == reoffered /\ Len(store) >= 1

\* the two events of the aggregation example, under two links
IsExamplePair(tbl) ==
    /\ Len(tbl) = 2
    /\ {<<tbl[1].lat, tbl[1].lon>>, <<tbl[2].lat, tbl[2].lon>>}
         = {<<123456, 987654>>, <<123449, 987649>>}

\* C9 as stated: the events at (1.23456, 9.87654) and (1.23449, 9.87649) are
\* returned as one point with count 2.
C9_AsStated ==
    IsExamplePair(pts_from) => Len(pts) = 1 /\ pts[1][3] = 2

\* C9 amended: the two events round to the different buckets (1.235, 9.877)
\* and (1.234, 9.876), and aggregate returns two points with count 1 each.
C9_TwoBuckets ==
    IsExamplePair(pts_from) =>
        /\ {pts[i] : i \in 1..Len(pts)} = {<<1235, 9877, 1>>, <<1234, 9876, 1>>}
        /\ Len(pts) = 2

C9_Witness == IsExamplePair(pts_from) /\ pts_from = store /\ Len(pts) = 2

\* r (in 1/1000) is the 3-decimal value nearest to v (in 1/100000), the one
\* away from zero when two are as near
Nearest3(v, r) ==
    \/ Abs(v - 100 * r) < 50
    \/ Abs(v - 100 * r) = 50 /\ Abs(100 * r) > Abs(v)

InPoint(row, p) == Nearest3(row.lat, p[1]) /\ Nearest3(row.lon, p[2])

RECURSIVE SumCounts(_)
SumCounts(points) == IF points = <<>> THEN 0 ELSE Head(points)[3] + SumCounts(Tail(points))

\* C10: aggregate returns one point per distinct pair of rounded coordinates
\* among the rows it read, each with the number of rows of that bucket as
\* its count; the counts add up to the number of rows; the call leaves the
\* table as it was.
C10_Aggregate ==
    /\ [](/\ \A i, j \in 1..Len(pts) :
                i # j => <<pts[i][1], pts[i][2]>> # <<pts[j][1], pts[j][2]>>
          /\ \A k \in 1..Len(pts_from) : \E i \in 1..Len(pts) : InPoint(pts_from[k], pts[i])
          /\ \A i \in 1..Len(pts) :
                /\ pts[i][3] = Cardinality({k \in 1..Len(pts_from) : InPoint(pts_from[k], pts[i])})
                /\ pts[i][3] >= 1
          /\ SumCounts(pts) = Len(pts_from))
    /\ [][<<pts, pts_from>>' # <<pts, pts_from>> => store' = store /\ pts_from' = store]_vars

\* three rows with different coordinates in two buckets have been aggregated
C10_Witness ==
    /\ Len(pts_from) = 3 /\ pts_from = store /\ Len(pts) = 2
    /\ \A i, j \in 1..3 : i # j => pts_from[i].lat # pts_from[j].lat
    /\ \E i \in 1..2 : pts[i][3] = 2

\* run_pipeline has returned
RunOver == pc = "idle" /\ runs > 0

\* the loop over the items is over
LoopOver == pc = "finish" \/ RunOver

SavedItems == {i \in 1..Len(items) : outcome[i] = "Saved"}

\* C2: in a run over two items with different links and the same text, the
\* text passing the gate and the first item resolving to a place, only the
\* first item is saved and the run reports 1 inserted.
C2_RepublishedOnce ==
    (/\ RunOver /\ Len(items) = 2
     /\ items[1].link # items[2].link
     /\ trace[1].score # -1 /\ trace[2].score # -1
     /\ trace[1].text = trace[2].text
     /\ Passes(trace[1].score)
     /\ outcome[1] = "Saved")
    => /\ outcome[2] # "Saved"
       /\ Len(to_save) = 1 /\ to_save[1].link = items[1].link
       /\ result.inserted = 1

C2_Witness ==
    /\ RunOver /\ Len(items) = 2 /\ items[1].link # items[2].link
    /\ trace[1].text = TextStory /\ trace[2].text = TextStory
    /\ outcome = <<"Saved", "Duplicate">>
    /\ result.inserted = 1

\* C3 as stated: when the loop is over, every item rejected as a duplicate
\* matched an earlier item of the run that ended Saved.
C3_FirstSeenWins ==
    LoopOver =>
        \A j \in 1..Len(items) :
            outcome[j] = "Duplicate" =>
                /\ matched[j] # {}
                /\ \A k \in matched[j] :
                       \E i \in 1..(j - 1) :
                           Sha1(items[i].link) = k /\ outcome[i] = "Saved"

\* C4: an exception in one item ends that item alone: the items are taken
\* in order, each one gets an outcome, and run_pipeline returns its counts.
C4_FailureIsolation ==
    /\ pc \in {"idle", "text", "places", "geocode", "finish"}
    /\ pc \in {"text", "places", "geocode"} =>
           /\ idx \in 1..Len(items)
           /\ \A i \in 1..Len(items) : (outcome[i] # "Pending") <=> (i < idx)
    /\ LoopOver => \A i \in 1..Len(items) : outcome[i] # "Pending"
    /\ RunOver =>
           /\ result # NoResult
           /\ result.inserted = Cardinality(SavedItems)
           /\ result.points = Len(pts)

\* an item failed inside geocoding and the next one was saved and counted
C4_Witness ==
    /\ RunOver /\ Len(items) = 2
    /\ outcome = <<"Failed", "Saved">>
    /\ trace[1].geocoded
    /\ result.inserted = 1

\* the geocoder answered with a latitude and a longitude
NonNull(g) == g # NoLocation

\* C5 as stated: when geocode_places returns, the location selected is that
\* of the first candidate the geocoder answered with a non-null latitude
\* and longitude (0 included), and none when there is no such candidate.
C5_FirstNonNull ==
    (pc = "geocode" /\ ~MoreNames(places, gi, geos)) =>
        LET valid == {i \in 1..Len(calls) : NonNull(calls[i][2])}
        IN IF valid = {} THEN Selected(geos) = NoSelection
           ELSE LET i == CHOOSE x \in valid : \A y \in valid : x <= y
                IN Selected(geos) = <<calls[i][2].latitude, calls[i][2].longitude, calls[i][1]>>

\* C6 as stated: no candidate is sent to the geocoder after one that
\* resolved (here: one answered with a non-null, non-zero coordinate, which
\* every reading of "valid" accepts).
C6_StopsAtFirst ==
    \A i, j \in 1..Len(calls) :
        i < j => ~(NonNull(calls[i][2]) /\ calls[i][2].latitude # 0 /\ calls[i][2].longitude # 0)

\* C6 amended: the geocoder is called on the candidate names in order, and
\* the calls go on after a candidate resolved: when geocode_places returns,
\* every candidate has been sent.
C6_AllCandidatesSent ==
    pc = "geocode" =>
        /\ Len(calls) = gi - 1 /\ Len(calls) <= Len(places)
        /\ \A i \in 1..Len(calls) : calls[i][1] = places[i]
        /\ ~MoreNames(places, gi, geos) => Len(calls) = Len(places)

\* a candidate was sent after one whose answer was kept, and the location
\* selected is the earlier one
C6_Witness ==
    /\ pc = "geocode" /\ ~MoreNames(places, gi, geos)
    /\ \E i \in 1..(Len(calls) - 1) :
           /\ NonNull(calls[i][2]) /\ calls[i][2].latitude # 0
           /\ Selected(geos)[3] = calls[i][1]

\* C7: an item with no candidate names, or with None for every candidate,
\* is not saved: it ends PlaceUnresolved, the run collects and adds no row
\* with its link, and the inserted count counts the saved items only.
C7_UnresolvedNeverSaved ==
    \A i \in 1..Len(items) :
        trace[i].all_none =>
            /\ outcome[i] = "PlaceUnresolved"
            /\ \A k \in 1..Len(to_save) : to_save[k].link # items[i].link
            /\ RunOver =>
                   /\ \A k \in 1..Len(added) : added[k].link # items[i].link
                   /\ result.inserted = Cardinality(SavedItems)

\* a run over an item without candidates and one with None for each of its
\* three candidates
C7_Witness ==
    /\ RunOver /\ Len(items) = 2
    /\ trace[1].all_none /\ trace[1].text = TextNoPlace
    /\ trace[2].all_none /\ trace[2].text = TextStory
    /\ result.inserted = 0

\* C8: an item that scores below 0.6 ends at the gate: no signature
\* inserted, no geocoding, no row; every row collected or added scores at
\* least 0.6, and so does every item behind a key of the index.
C8_ScoreGate ==
    /\ \A i \in 1..Len(items) :
           (trace[i].score # -1 /\ trace[i].score < MinScore) =>
               /\ outcome[i] = "LowScore"
               /\ ~trace[i].indexed /\ ~trace[i].geocoded
    /\ \A k \in 1..Len(to_save) : to_save[k].score >= MinScore
    /\ \A k \in 1..Len(added) : added[k].score >= MinScore
    /\ \A e \in lsh : \E i \in 1..Len(items) :
           Sha1(items[i].link) = e[1] /\ trace[i].indexed /\ trace[i].score >= MinScore

\* a run rejected a low-scoring item and saved the next one
C8_Witness ==
    /\ RunOver /\ outcome = <<"LowScore", "Saved">>
    /\ trace[1].text = TextTempo /\ Len(added) = 1

\* the keywords of a language that occur in the lower-cased text
KeywordsIn(txt, lg) ==
    LET low == Lower(txt)
    IN {k \in {CRIME_KEYWORDS[lg][i] : i \in 1..Len(CRIME_KEYWORDS[lg])} : Contains(low, k)}

\* C11: for every text and both languages the score lies in [0, 1], and it
\* is 0.6 * min(hit_count / 5, 1) + 0.4 * min(len / 2000, 1).
C11_ScoreInUnitInterval ==
    lang \in Langs =>
        /\ s >= 0 /\ s <= 10000
        /\ s = 1200 * Min(Cardinality(KeywordsIn(text, lang)), 5) + 2 * Min(Len(text), 2000)

\* a text with more than 5 keywords and more than 2000 characters was scored
C11_Witness ==
    /\ lang \in Langs /\ Cardinality(KeywordsIn(text, lang)) > 5 /\ Len(text) > 2000
    /\ s = 10000

\* C12: for both languages the score of the empty text is exactly 0.
C12_EmptyScoresZero == (lang \in Langs /\ text = "") => s = 0

\* the empty text was scored with the pt keywords
C12_Witness == lang = "pt" /\ text = "" /\ s = 0

\* the sets of 5+-character tokens of the texts, written out
StoryTokens == {"police", "murder", "robbery", "fraud", "arson", "theft", "atlantis", "paris"}

TokenSetOf ==
    TextStory :> StoryTokens @@ TextStoryCaps :> StoryTokens
    @@ TextStoryWire :> (StoryTokens \cup {"newswire"})
    @@ TextStoryAgency :> (StoryTokens \cup {"agency"})
    @@ TextStoryShort :> {"police", "murder", "robbery", "atlantis"}
    @@ TextIsland :> {"homicide", "assault", "kidnapping", "extortion", "shooting",
                      "reported", "island"}

\* the Jaccard similarity of two token sets is at least 85%
Overlap85(a, b) ==
    a \cup b # {} /\ 100 * Cardinality(a \cap b) >= 85 * Cardinality(a \cup b)

\* the index has just been queried with the signature of text
Queried == matched # <<>>

\* C13 as stated: when a text whose tokens overlap by at least 85% with
\* those of the queried text has been inserted, the query returns a match.
C13_Overlap85Matches ==
    Queried =>
        \A i \in 1..Len(trace) :
            Overlap85(TokenSetOf[trace[i].text], TokenSetOf[text]) => matched[1] # {}

\* C13 amended: when a text with the same token set as the queried text
\* has been inserted, the query returns a match, and the match holds the
\* key of every such text.
C13_EqualTokensMatch ==
    Queried =>
        /\ \A i \in 1..Len(trace) :
               TokenSetOf[trace[i].text] = TokenSetOf[text] => matched[1] # {}
        /\ \A e \in lsh : \A i \in 1..Len(trace) :
               (e[2] = IndexSignatureOf[trace[i].text] /\ TokenSetOf[trace[i].text] = TokenSetOf[text])
                   => e[1] \in matched[1]

\* a text was inserted and another text with the same tokens was queried
C13_Witness ==
    /\ Queried /\ matched[1] # {}
    /\ \E i \in 1..Len(trace) :
           trace[i].text # text /\ TokenSetOf[trace[i].text] = TokenSetOf[text]
    /\ \A i \in 1..Len(trace) : TokenSetOf[trace[i].text] = TokenSetOf[text]

\* C14 as stated: the inserted count a run returns is the number of rows
\* the run added to the table.
C14_InsertedIsAdded == RunOver => result.inserted = Len(added)

\* C15 as stated: once an item has ended Saved, the table holds a row with
\* its link, before the next item is taken.
C15_PersistsPerItem ==
    \A i \in 1..Len(items) :
        outcome[i] = "Saved" => \E k \in 1..Len(store) : store[k].link = items[i].link

\* C16 as stated: every geocoder request of a run comes at least one second
\* after the run's previous request.
C16_RequestsSpaced ==
    \A i \in 1..Len(calls) : calls[i][3] = -1 \/ calls[i][3] >= MinDelay

\* the items of the current run whose signature was inserted into the index
IndexedItems == {i \in 1..Len(items) : trace[i].indexed}

\* C17: the index belongs to one run: it starts empty and holds only the
\* signatures of this run's items, so an item is rejected as a duplicate
\* only on account of an earlier item of the same run, never of a stored
\* Event; a saved item with a new link adds a row whatever the table holds,
\* and a run never changes or removes a row that is stored.
C17_IndexPerRun ==
    /\ [](/\ (pc = "text" /\ idx = 1) => lsh = {}
          /\ \A e \in lsh : \E i \in IndexedItems :
                 i <= idx /\ Sha1(items[i].link) = e[1] /\ e[2] = SignatureOf[trace[i].text]
          /\ Cardinality(lsh) = Cardinality(IndexedItems)
          /\ \A j \in 1..Len(items) :
                 outcome[j] = "Duplicate" =>
                     /\ matched[j] # {}
                     /\ \A k \in matched[j] :
                            \E i \in IndexedItems : i < j /\ Sha1(items[i].link) = k
          /\ RunOver =>
                 \A i \in SavedItems : \E k \in 1..Len(store) : store[k].link = items[i].link)
    /\ [][/\ Len(store') >= Len(store)
          /\ \A k \in 1..Len(store) : store'[k] = store[k]]_vars

\* the second run saved an item with a new link and the text of the Event
\* the first run stored, and an item with the stored link: one row added,
\* the stored row as it was
C17_Witness ==
    /\ RunOver /\ runs = 2 /\ Len(items) = 2 /\ outcome = <<"Saved", "Saved">>
    /\ Len(store) = 2 /\ Len(added) = 1
    /\ store[1].created_at = 1 /\ store[2].created_at = 2
    /\ store[2].link = items[1].link /\ store[1].link = items[2].link
    /\ store[1].link # store[2].link
    /\ trace[1].text = TextStory
    /\ store[1].score = ScoreOf[TextStory]["en"] /\ store[2].score = store[1].score

\* C18: a detection failure does not end an item: every item whose text was
\* fetched gets a language that is pt or en (en when detect raised or named
\* a language that does not start with pt) and is scored with the keywords
\* of that language; the language is pt or en wherever it is used later.
C18_LanguageFallback ==
    /\ \A i \in 1..Len(items) :
           trace[i].detected # "" =>
               /\ trace[i].lang \in Langs
               /\ trace[i].lang = (IF StartsWith(trace[i].detected, "pt") THEN "pt" ELSE "en")
               /\ trace[i].detected = "raise" => trace[i].lang = "en"
               /\ trace[i].score = ScoreOf[trace[i].text][trace[i].lang]
               /\ outcome[i] = "Failed" => Passes(trace[i].score)
    /\ pc \in {"places", "geocode"} => lang \in Langs /\ lang = trace[idx].lang
    /\ \A k \in 1..Len(to_save) : to_save[k].lang \in Langs
    /\ \A k \in 1..Len(store) : store[k].lang \in Langs

\* detect raised on the first item, which was scored and rejected at the
\* gate; it named French for the second, which was saved as en
C18_Witness ==
    /\ RunOver /\ Len(items) = 2 /\ outcome = <<"LowScore", "Saved">>
    /\ trace[1].detected = "raise" /\ trace[1].lang = "en" /\ trace[1].score = 0
    /\ trace[2].detected = "fr" /\ trace[2].lang = "en"
    /\ to_save[1].lang = "en"

====
